---------------------------- MODULE Spec2Model ----------------------------
(***************************************************************************)
(* A model of the KZG polynomial commitment crate (crates/kzg):            *)
(*   primitives/poly.rs        FpPolynomial<F>, dense coefficient vectors  *)
(*   backend/arkworks_bn254.rs KZGCommitmentScheme, commit/prove/verify    *)
(*                                                                         *)
(* The scalar field Fr is modelled by the prime field of P elements.  The  *)
(* groups G1 and G2 have prime order equal to the size of the scalar       *)
(* field, so each is modelled by the discrete logarithm of its elements    *)
(* with respect to the generator: the generator is 1, the identity is 0,   *)
(* the group law is addition mod P and the scalar action multiplication    *)
(* mod P.  The pairing of a*G1 and b*G2 is e(G1,G2)^(a*b): the target      *)
(* group is written additively too and the pairing is the product mod P,   *)
(* which is bilinear and non-degenerate.                                   *)
(***************************************************************************)
EXTENDS Integers, Sequences, FiniteSets, TLC

\* The modulus of the scalar field Fr (and the order of G1, G2 and GT),
\* scaled down to a small prime.
P == 5

\* Largest max_degree handed to KZGCommitmentScheme::new.
MaxDegree == 2

\* Longest coefficient vector handed to from_coefs.
MaxLen == 3

\* Longest coefficient vector of a second operand (the other polynomial of
\* add and sub, the divisor of div_rem).
MaxOther == 2

F == 0..(P - 1)
G1 == 0..(P - 1)
G2 == 0..(P - 1)

-----------------------------------------------------------------------------
(* Field and group oracle (ark_ff, ark_ec).                                *)

ZERO == 0
ONE == 1

FAdd(a, b) == (a + b) % P
FSub(a, b) == (a + P - b) % P
FMul(a, b) == (a * b) % P
FNeg(a) == (P - a) % P

\* Field::inverse: None for zero, Some(the multiplicative inverse) otherwise.
inverse(a) ==
    IF a = ZERO THEN [some |-> FALSE, val |-> ZERO]
    ELSE [some |-> TRUE, val |-> CHOOSE b \in F : FMul(a, b) = ONE]

\* G1Projective::generator() and G1Projective::zero().
G1generator == 1
G1zero == 0
G2generator == 1

GAdd(a, b) == (a + b) % P
GSub(a, b) == (a + P - b) % P
GMul(a, k) == (a * k) % P

\* Bn254::pairing: bilinear and non-degenerate.
pairing(a, b) == (a * b) % P

\* VariableBaseMSM::msm: Err when the two slices differ in length, the sum
\* of scalars[i] * bases[i] otherwise.
RECURSIVE msm_sum(_, _, _)
msm_sum(bases, scalars, n) ==
    IF n = 0 THEN G1zero
    ELSE GAdd(msm_sum(bases, scalars, n - 1), GMul(bases[n], scalars[n]))

msm(bases, scalars) ==
    IF Len(bases) # Len(scalars) THEN [ok |-> FALSE, val |-> G1zero]
    ELSE [ok |-> TRUE, val |-> msm_sum(bases, scalars, Len(bases))]

-----------------------------------------------------------------------------
(* FpPolynomial (primitives/poly.rs).  A polynomial is its coefs vector;   *)
(* Rust index i is TLA+ index i + 1.                                       *)

\* All coefficient vectors of length 0..n.
SeqsUpTo(n) == UNION {[1..k -> F] : k \in 0..n}

RECURSIVE trim_coefs(_)
trim_coefs(c) ==
    IF Len(c) > 1 /\ c[Len(c)] = ZERO
    THEN trim_coefs(SubSeq(c, 1, Len(c) - 1))
    ELSE c

from_coefs(c) == trim_coefs(c)

zero == from_coefs(<<ZERO>>)

one == from_coefs(<<ONE>>)

degree(c) == IF Len(c) = 0 THEN 0 ELSE Len(c) - 1

\* is_zero indexes coefs[0]: it is only applied to non-empty vectors here.
is_zero(c) == degree(c) = 0 /\ c[1] = ZERO

RECURSIVE eval_loop(_, _, _, _, _)
eval_loop(c, i, result, variable, point) ==
    IF i > Len(c) THEN result
    ELSE eval_loop(c, i + 1, FAdd(result, FMul(variable, c[i])),
                   FMul(variable, point), point)

eval(c, point) == eval_loop(c, 1, ZERO, ONE, point)

\* Mutant of add_assign: the tail of a longer other is not pushed.
add_assign_no_tail(self, other) ==
    trim_coefs([i \in 1..Len(self) |->
                  IF i <= Len(other) THEN FAdd(self[i], other[i]) ELSE self[i]])

add_assign(self, other) ==
    LET n == Len(self)
        zipped == [i \in 1..n |->
                     IF i <= Len(other) THEN FAdd(self[i], other[i]) ELSE self[i]]
        pushed == IF n < Len(other)
                  THEN zipped \o SubSeq(other, n + 1, Len(other))
                  ELSE zipped
    IN trim_coefs(pushed)

add(self, other) == add_assign(self, other)

\* Mutant of sub_assign: the tail of a longer other is pushed as it is,
\* not negated.
sub_assign_tail_not_negated(self, other) ==
    LET n == Len(self)
        zipped == [i \in 1..n |->
                     IF i <= Len(other) THEN FSub(self[i], other[i]) ELSE self[i]]
        pushed == IF Len(other) > n
                  THEN zipped \o SubSeq(other, n + 1, Len(other))
                  ELSE zipped
    IN trim_coefs(pushed)

sub_assign(self, other) ==
    LET n == Len(self)
        zipped == [i \in 1..n |->
                     IF i <= Len(other) THEN FSub(self[i], other[i]) ELSE self[i]]
        pushed == IF Len(other) > n
                  THEN zipped \o [i \in 1..(Len(other) - n) |-> FNeg(other[n + i])]
                  ELSE zipped
    IN trim_coefs(pushed)

sub(self, other) == sub_assign(self, other)

\* The loop of mul_scalar_assign without the feature "parallel":
\* coef.mul_assign(scalar) for every coefficient, from left to right.
RECURSIVE mul_scalar_loop(_, _, _)
mul_scalar_loop(c, scalar, i) ==
    IF i > Len(c) THEN c
    ELSE mul_scalar_loop([c EXCEPT ![i] = FMul(@, scalar)], scalar, i + 1)

mul_scalar_assign_sequential(self, scalar) ==
    trim_coefs(mul_scalar_loop(self, scalar, 1))

\* Mutant of mul_scalar_assign: the coefficients are not trimmed.
mul_scalar_assign_untrimmed(self, scalar) ==
    [i \in 1..Len(self) |-> FMul(self[i], scalar)]

mul_scalar_assign(self, scalar) ==
    trim_coefs([i \in 1..Len(self) |-> FMul(self[i], scalar)])

mul_scalar(self, scalar) == mul_scalar_assign(self, scalar)

neg_assign(self) == mul_scalar_assign(self, FNeg(ONE))


\* add_coef_assign indexes coefs[order] after padding: an empty vector with
\* order 0 is not padded (degree() is 0) and the index is out of bounds.
add_coef_assign_panics(self, order) == Len(self) = 0 /\ order = 0

add_coef_assign(self, coef, order) ==
    LET padded == IF Len(self) < order + 1
                  THEN self \o [i \in 1..(order + 1 - Len(self)) |-> ZERO]
                  ELSE self
    IN trim_coefs([padded EXCEPT ![order + 1] = FAdd(@, coef)])

RECURSIVE mul_var_loop(_, _, _, _)
mul_var_loop(c, i, r, scalar) ==
    IF i > Len(c) THEN c
    ELSE mul_var_loop([c EXCEPT ![i] = FMul(@, r)], i + 1, FMul(r, scalar), scalar)

mul_var_assign(self, scalar) == trim_coefs(mul_var_loop(self, 1, ONE, scalar))

mul_var(self, scalar) == mul_var_assign(self, scalar)

\* Mutant of from_zeroes_step: the scaled copy is added, r = r * (X + root).
from_zeroes_step_added(r, root) ==
    LET p == mul_scalar_assign(r, root)
        shifted == <<ZERO>> \o r
    IN add_assign(shifted, p)

\* One pass of the loop of from_zeroes_ref: r = r * (X - root).
from_zeroes_step(r, root) ==
    LET p == mul_scalar_assign(r, root)
        shifted == <<ZERO>> \o r
    IN sub_assign(shifted, p)

RECURSIVE from_zeroes_loop(_, _, _)
from_zeroes_loop(r, zeroes, i) ==
    IF i > Len(zeroes) THEN r
    ELSE from_zeroes_loop(from_zeroes_step(r, zeroes[i]), zeroes, i + 1)

from_zeroes_ref(zeroes) == trim_coefs(from_zeroes_loop(one, zeroes, 1))

from_zeroes(zeroes) == from_zeroes_ref(zeroes)

\* div_rem unwraps the last coefficient of the divisor and its inverse when
\* the divisor is not longer than the dividend.
div_rem_panics(self, divisor) ==
    /\ Len(divisor) <= Len(self)
    /\ \/ Len(divisor) = 0
       \/ ~inverse(divisor[Len(divisor)]).some

\* The inner loop of div_rem for one i (0-based, as in the source):
\* rem[i + j] -= qi * divisor_coefs[j] for j in 0..l.
div_rem_inner(rem, divisor, i, qi) ==
    [m \in 1..Len(rem) |->
        IF m - 1 >= i /\ m - 1 < i + Len(divisor)
        THEN FSub(rem[m], FMul(qi, divisor[m - i]))
        ELSE rem[m]]

\* Mutant of div_rem_loop: qi is the leading coefficient of the remainder,
\* not multiplied by the inverse of the leading coefficient of the divisor.
RECURSIVE div_rem_loop_no_inverse(_, _, _, _, _)
div_rem_loop_no_inverse(rem, quo, divisor, bl_inv, i) ==
    IF i < 0 THEN <<quo, rem>>
    ELSE LET qi == rem[i + Len(divisor)]
         IN div_rem_loop_no_inverse(div_rem_inner(rem, divisor, i, qi),
                                    [quo EXCEPT ![i + 1] = qi], divisor, bl_inv, i - 1)

\* The outer loop of div_rem, i running from k - l down to 0.
RECURSIVE div_rem_loop(_, _, _, _, _)
div_rem_loop(rem, quo, divisor, bl_inv, i) ==
    IF i < 0 THEN <<quo, rem>>
    ELSE LET qi == FMul(bl_inv, rem[i + Len(divisor)])
         IN div_rem_loop(div_rem_inner(rem, divisor, i, qi),
                         [quo EXCEPT ![i + 1] = qi], divisor, bl_inv, i - 1)

\* div_rem returns the pair <<q, r>>.
div_rem(self, divisor) ==
    LET k == Len(self)
        l == Len(divisor)
    IN IF l > k THEN <<zero, self>>
       ELSE LET bl_inv == inverse(divisor[l]).val
                quo0 == [i \in 1..(k - l + 1) |-> ZERO]
                done == div_rem_loop(self, quo0, divisor, bl_inv, k - l)
                popped == SubSeq(done[2], 1, l - 1)
                rem == IF Len(popped) = 0 THEN <<ZERO>> ELSE popped
            IN <<trim_coefs(from_coefs(done[1])), trim_coefs(from_coefs(rem))>>

-----------------------------------------------------------------------------
(* KZGCommitmentScheme (backend/arkworks_bn254.rs).  A scheme is the pair  *)
(* of its vectors public_parameter_group_1 and public_parameter_group_2.   *)
(* A KZGResult is a record [kind, val]: kind "Ok" carries val, the kinds   *)
(* "DegreeError", "PCSProveEvalError" and "DeserializationError" are the   *)
(* returned errors, and kind "panic" is an abort of the call (a failed     *)
(* unwrap or an index out of bounds).                                      *)

Ok(v) == [kind |-> "Ok", val |-> v]
Err(k) == [kind |-> k, val |-> 0]
Panic == [kind |-> "panic", val |-> 0]

\* impl HomomorphicPolyComElem for KZGCommitment<G1Projective>: add and mul.
KZGCommitment_add(self, other) == GAdd(self, other)

KZGCommitment_mul(self, exp) == GMul(self, exp)

\* Mutant of new_loop: elem_g1 is multiplied by s before it is pushed.
RECURSIVE new_loop_mul_first(_, _, _, _)
new_loop_mul_first(acc, elem_g1, n, s) ==
    IF n = 0 THEN acc
    ELSE new_loop_mul_first(Append(acc, GMul(elem_g1, s)), GMul(elem_g1, s), n - 1, s)

\* The loop of KZGCommitmentScheme::new: push elem_g1, then multiply it by s.
RECURSIVE new_loop(_, _, _, _)
new_loop(acc, elem_g1, n, s) ==
    IF n = 0 THEN acc
    ELSE new_loop(Append(acc, elem_g1), GMul(elem_g1, s), n - 1, s)

\* KZGCommitmentScheme::new(max_degree, prng), s being the sampled scalar.
new(max_degree, s) ==
    [g1 |-> new_loop(<<>>, G1generator, max_degree + 1, s),
     g2 |-> <<G2generator, GMul(G2generator, s)>>]

max_degree(g1) == Len(g1) - 1

commit(g1, polynomial) ==
    LET deg == degree(polynomial)
    IN IF deg + 1 > Len(g1) THEN Err("DegreeError")
       ELSE LET points_raw == SubSeq(g1, 1, deg + 1)
                commitment_value == msm(points_raw, polynomial)
            IN IF commitment_value.ok THEN Ok(commitment_value.val) ELSE Panic

\* Mutant of apply_blind_loop: the blind is not negated for the second
\* addition.
RECURSIVE apply_blind_loop_no_neg(_, _, _, _, _)
apply_blind_loop_no_neg(g1, commitment, blinds, zeroing_degree, i) ==
    IF i >= Len(blinds) THEN Ok(commitment)
    ELSE IF i + 1 > Len(g1) \/ zeroing_degree + i + 1 > Len(g1) THEN Panic
    ELSE apply_blind_loop_no_neg(
             g1,
             GAdd(GAdd(commitment, GMul(g1[i + 1], blinds[i + 1])),
                  GMul(g1[zeroing_degree + i + 1], blinds[i + 1])),
             blinds, zeroing_degree, i + 1)

\* The loop of apply_blind_factors, i from 0: add blind * tau1[i], then
\* add (-blind) * tau1[zeroing_degree + i].  An index past the end aborts.
RECURSIVE apply_blind_loop(_, _, _, _, _)
apply_blind_loop(g1, commitment, blinds, zeroing_degree, i) ==
    IF i >= Len(blinds) THEN Ok(commitment)
    ELSE IF i + 1 > Len(g1) \/ zeroing_degree + i + 1 > Len(g1) THEN Panic
    ELSE LET blind == blinds[i + 1]
             added == GAdd(commitment, GMul(g1[i + 1], blind))
         IN apply_blind_loop(
                g1,
                GAdd(added, GMul(g1[zeroing_degree + i + 1], FNeg(blind))),
                blinds, zeroing_degree, i + 1)

apply_blind_factors(g1, commitment, blinds, zeroing_degree) ==
    apply_blind_loop(g1, commitment, blinds, zeroing_degree, 0)

\* Mutant of prove: the point is not negated, the divisor is X + x.
prove_point_not_negated(g1, poly, x, max_deg) ==
    LET ev == eval(poly, x)
    IN IF degree(poly) > max_deg THEN Err("DegreeError")
       ELSE LET nominator == sub(poly, from_coefs(<<ev>>))
                vanishing_poly == from_coefs(<<x, ONE>>)
                qr == div_rem(nominator, vanishing_poly)
            IN IF ~is_zero(qr[2]) THEN Err("PCSProveEvalError")
               ELSE LET proof == commit(g1, qr[1])
                    IN IF proof.kind = "Ok" THEN proof ELSE Panic

\* Mutant of prove: the check of the degree against max_degree is missing.
prove_no_degree_check(g1, poly, x, max_deg) ==
    LET ev == eval(poly, x)
        nominator == sub(poly, from_coefs(<<ev>>))
        vanishing_poly == from_coefs(<<FNeg(x), ONE>>)
        qr == div_rem(nominator, vanishing_poly)
    IN IF ~is_zero(qr[2]) THEN Err("PCSProveEvalError")
       ELSE LET proof == commit(g1, qr[1])
            IN IF proof.kind = "Ok" THEN proof ELSE Panic

prove(g1, poly, x, max_deg) ==
    LET ev == eval(poly, x)
    IN IF degree(poly) > max_deg THEN Err("DegreeError")
       ELSE LET nominator == sub(poly, from_coefs(<<ev>>))
                point_neg == FNeg(x)
                vanishing_poly == from_coefs(<<point_neg, ONE>>)
                qr == div_rem(nominator, vanishing_poly)
            IN IF ~is_zero(qr[2]) THEN Err("PCSProveEvalError")
               ELSE LET proof == commit(g1, qr[1])
                    IN IF proof.kind = "Ok" THEN proof ELSE Panic

\* Mutant of verify: the point is added to, not subtracted from, s * G2.
verify_sign_slip(g1, g2, cm, deg, point, ev, proof) ==
    LET x_minus_point == GAdd(g2[2], GMul(g2[1], point))
        left_pairing_eval ==
            IF ev = ZERO THEN pairing(cm, g2[1])
            ELSE pairing(GSub(cm, GMul(g1[1], ev)), g2[1])
    IN IF left_pairing_eval = pairing(proof, x_minus_point)
       THEN Ok(0) ELSE Err("PCSProveEvalError")

\* Mutant of verify: the claimed value is never subtracted from the
\* commitment.
verify_drops_eval(g1, g2, cm, deg, point, ev, proof) ==
    LET x_minus_point == GSub(g2[2], GMul(g2[1], point))
    IN IF pairing(cm, g2[1]) = pairing(proof, x_minus_point)
       THEN Ok(0) ELSE Err("PCSProveEvalError")

\* Mutant of verify: the proof is paired with s * G2, the point forgotten.
verify_drops_point(g1, g2, cm, deg, point, ev, proof) ==
    LET left_pairing_eval ==
            IF ev = ZERO THEN pairing(cm, g2[1])
            ELSE pairing(GSub(cm, GMul(g1[1], ev)), g2[1])
    IN IF left_pairing_eval = pairing(proof, g2[2])
       THEN Ok(0) ELSE Err("PCSProveEvalError")

verify(g1, g2, cm, deg, point, ev, proof) ==
    IF Len(g1) < 1 \/ Len(g2) < 2 THEN Panic
    ELSE LET g1_0 == g1[1]
             g2_0 == g2[1]
             g2_1 == g2[2]
             x_minus_point == GSub(g2_1, GMul(g2_0, point))
             left_pairing_eval ==
                 IF ev = ZERO THEN pairing(cm, g2_0)
                 ELSE pairing(GSub(cm, GMul(g1_0, ev)), g2_0)
             right_pairing_eval == pairing(proof, x_minus_point)
         IN IF left_pairing_eval = right_pairing_eval
            THEN Ok(0) ELSE Err("PCSProveEvalError")

\* Mutant of shrink_to_verifier_only: the second vector is cut to its first
\* element too, and filled up with it.
shrink_to_verifier_only_cut(g1, g2) ==
    IF Len(g1) < 1 \/ Len(g2) < 2 THEN Panic
    ELSE Ok([g1 |-> <<g1[1]>>, g2 |-> <<g2[1], g2[1]>>])

shrink_to_verifier_only(g1, g2) ==
    IF Len(g1) < 1 \/ Len(g2) < 2 THEN Panic
    ELSE Ok([g1 |-> <<g1[1]>>, g2 |-> <<g2[1], g2[2]>>])

-----------------------------------------------------------------------------
(* Unchecked (de)serialization of a scheme (backend/arkworks_bn254.rs over *)
(* ark_serialize).  A byte is a number in 0..255 and a byte slice a        *)
(* sequence of bytes; Rust offset i is TLA+ index i + 1.  An uncompressed  *)
(* point is its affine coordinates, each a base-field element of one byte  *)
(* here, with the flags in the two top bits of the last byte.  A slice     *)
(* that decodes with Validate::No to coordinates of no point of the group  *)
(* is the unchecked point <<"unchecked", coordinates>>.                    *)

\* The modulus of the base field Fq of the coordinates, scaled down.
FqModulus == 7

\* P::G1::default().serialized_size(Compress::No), and the same for G2.
n_1 == 2
n_2 == 4

\* SWFlags: the point at infinity, and the sign of y.
InfinityFlag == 64
NegativeFlag == 128

\* Mutant of to_le_bytes: the bytes are written big end first.
to_be_bytes(n) ==
    <<(n \div 16777216) % 256, (n \div 65536) % 256, (n \div 256) % 256, n % 256>>

\* u32::to_le_bytes(n as u32).  The lengths of the model are far below
\* 2^32, which the conversion to u32 keeps as they are.
to_le_bytes(n) ==
    <<n % 256, (n \div 256) % 256, (n \div 65536) % 256, (n \div 16777216) % 256>>

\* u32::from_le_bytes(b) as usize: exact below 2^24, and above it a number
\* of at least 2^24 - 65536, more than the bytes of any slice of the model.
from_le_bytes(b) ==
    LET hi == b[3] + 256 * b[4]
    IN b[1] + 256 * b[2] + 65536 * (IF hi > 255 THEN 255 ELSE hi)

\* The affine coordinates of the point a * G1, a not zero.
G1_affine(a) == <<a, P - a>>

\* The affine coordinates of the point b * G2 over the quadratic extension,
\* b not zero.
G2_affine(b) == <<b, 1, P - b, 0>>

\* G1::serialize_with_mode(&mut buf, Compress::No)
G1_serialize(a) ==
    IF a = 0 THEN <<0, InfinityFlag>> ELSE G1_affine(a)

\* G2::serialize_with_mode(&mut buf, Compress::No)
G2_serialize(b) ==
    IF b = 0 THEN <<0, 0, 0, InfinityFlag>> ELSE G2_affine(b)

\* The coordinates held by a slice, the flags masked off its last byte.
Coordinates(reader) ==
    [i \in 1..Len(reader) |-> IF i = Len(reader) THEN reader[i] % 64 ELSE reader[i]]

\* The flags held by the last byte of a slice.
Flags(reader) == 64 * (reader[Len(reader)] \div 64)

\* The slice does not decode: both flags are set, or a coordinate is not a
\* reduced element of the base field.
Undecodable(reader) ==
    \/ Flags(reader) = InfinityFlag + NegativeFlag
    \/ \E i \in 1..Len(reader) : Coordinates(reader)[i] >= FqModulus

\* G1::deserialize_with_mode(reader, Compress::No, Validate::No) on a slice
\* of n_1 bytes.
G1_deserialize(reader) ==
    IF Undecodable(reader) THEN Err("DeserializationError")
    ELSE IF Flags(reader) = InfinityFlag THEN Ok(0)
    ELSE IF \E a \in 1..(P - 1) : G1_affine(a) = Coordinates(reader)
    THEN Ok(CHOOSE a \in 1..(P - 1) : G1_affine(a) = Coordinates(reader))
    ELSE Ok(<<"unchecked", Coordinates(reader)>>)

\* G2::deserialize_with_mode(reader, Compress::No, Validate::No) on a slice
\* of n_2 bytes.
G2_deserialize(reader) ==
    IF Undecodable(reader) THEN Err("DeserializationError")
    ELSE IF Flags(reader) = InfinityFlag THEN Ok(0)
    ELSE IF \E b \in 1..(P - 1) : G2_affine(b) = Coordinates(reader)
    THEN Ok(CHOOSE b \in 1..(P - 1) : G2_affine(b) = Coordinates(reader))
    ELSE Ok(<<"unchecked", Coordinates(reader)>>)

\* The two loops of to_unchecked_bytes: bytes.extend(buf) for every point.
RECURSIVE extend_group_1(_, _)
extend_group_1(g1, i) ==
    IF i > Len(g1) THEN <<>>
    ELSE G1_serialize(g1[i]) \o extend_group_1(g1, i + 1)

RECURSIVE extend_group_2(_, _)
extend_group_2(g2, i) ==
    IF i > Len(g2) THEN <<>>
    ELSE G2_serialize(g2[i]) \o extend_group_2(g2, i + 1)

to_unchecked_bytes(g1, g2) ==
    Ok(to_le_bytes(Len(g1)) \o to_le_bytes(Len(g2))
       \o extend_group_1(g1, 1) \o extend_group_2(g2, 1))

\* The first loop of from_unchecked_bytes, i from 0: slice n_1 bytes of
\* bytes_1, decode them, push the point.  Slicing past the end aborts.
RECURSIVE read_group_1(_, _, _, _)
read_group_1(bytes_1, len_1, i, p1) ==
    IF i >= len_1 THEN Ok(p1)
    ELSE IF n_1 * (i + 1) > Len(bytes_1) THEN Panic
    ELSE LET g1 == G1_deserialize(SubSeq(bytes_1, n_1 * i + 1, n_1 * (i + 1)))
         IN IF g1.kind # "Ok" THEN g1
            ELSE read_group_1(bytes_1, len_1, i + 1, Append(p1, g1.val))

\* The second loop of from_unchecked_bytes.
RECURSIVE read_group_2(_, _, _, _)
read_group_2(bytes_2, len_2, i, p2) ==
    IF i >= len_2 THEN Ok(p2)
    ELSE IF n_2 * (i + 1) > Len(bytes_2) THEN Panic
    ELSE LET g2 == G2_deserialize(SubSeq(bytes_2, n_2 * i + 1, n_2 * (i + 1)))
         IN IF g2.kind # "Ok" THEN g2
            ELSE read_group_2(bytes_2, len_2, i + 1, Append(p2, g2.val))

from_unchecked_bytes(bytes) ==
    IF Len(bytes) < 8 THEN Err("DeserializationError")
    ELSE LET len_1 == from_le_bytes(SubSeq(bytes, 1, 4))
             len_2 == from_le_bytes(SubSeq(bytes, 5, 8))
         IN IF 8 + n_1 * len_1 > Len(bytes) THEN Panic
            ELSE LET bytes_1 == SubSeq(bytes, 9, Len(bytes))
                     bytes_2 == SubSeq(bytes, 9 + n_1 * len_1, Len(bytes))
                     p1 == read_group_1(bytes_1, len_1, 0, <<>>)
                 IN IF p1.kind # "Ok" THEN p1
                    ELSE LET p2 == read_group_2(bytes_2, len_2, 0, <<>>)
                         IN IF p2.kind # "Ok" THEN p2
                            ELSE Ok([g1 |-> p1.val, g2 |-> p2.val])

-----------------------------------------------------------------------------
(* Evaluation domains and the FFT (primitives/poly.rs over ark_poly).  An  *)
(* Option is a record [kind, val] of kind "Some" or "None"; a failed       *)
(* assertion is the kind "panic".  A domain is the record of the fields of *)
(* ark_poly's domains that the transforms read.                            *)

Some(v) == [kind |-> "Some", val |-> v]
None == [kind |-> "None", val |-> 0]

\* FftField::TWO_ADICITY and TWO_ADIC_ROOT_OF_UNITY of the scalar field: the
\* multiplicative group of the field of P elements has order 4 = 2^2 and 2
\* generates it.  The field has no SMALL_SUBGROUP_BASE.
TWO_ADICITY == 2
TWO_ADIC_ROOT_OF_UNITY == 2

RECURSIVE is_power_of_two(_)
is_power_of_two(n) ==
    /\ n > 0
    /\ n = 1 \/ (n % 2 = 0 /\ is_power_of_two(n \div 2))

RECURSIVE log2(_)
log2(n) == IF n <= 1 THEN 0 ELSE 1 + log2(n \div 2)

RECURSIVE square_times(_, _)
square_times(omega, n) ==
    IF n = 0 THEN omega ELSE square_times(FMul(omega, omega), n - 1)

\* FftField::get_root_of_unity(n) for n a power of two.
get_root_of_unity(n) ==
    IF log2(n) > TWO_ADICITY THEN None
    ELSE Some(square_times(TWO_ADIC_ROOT_OF_UNITY, TWO_ADICITY - log2(n)))

\* Radix2EvaluationDomain::new(num_coeffs), num_coeffs a power of two.
Radix2EvaluationDomain_new(num_coeffs) ==
    LET group_gen == get_root_of_unity(num_coeffs)
    IN IF group_gen.kind = "None" THEN None
       ELSE Some([size |-> num_coeffs,
                  group_gen |-> group_gen.val,
                  group_gen_inv |-> inverse(group_gen.val).val,
                  size_inv |-> inverse(num_coeffs % P).val])

\* MixedRadixEvaluationDomain::new(num_coeffs): None, the field having no
\* SMALL_SUBGROUP_BASE.
MixedRadixEvaluationDomain_new(num_coeffs) == None

evaluation_domain(num_coeffs) ==
    IF ~is_power_of_two(num_coeffs) THEN Panic
    ELSE Radix2EvaluationDomain_new(num_coeffs)

quotient_evaluation_domain(num_coeffs) ==
    IF ~(\/ is_power_of_two(num_coeffs)
         \/ (num_coeffs % 3 = 0 /\ is_power_of_two(num_coeffs \div 3)))
    THEN Panic
    ELSE MixedRadixEvaluationDomain_new(num_coeffs)

\* The transform of a vector v of the size of the domain with the root w:
\* entry i (from 0) is the sum over j of v[j] * w^(i * j).
RECURSIVE transform_sum(_, _, _, _)
transform_sum(v, w_i, j, w_ij) ==
    IF j > Len(v) THEN ZERO
    ELSE FAdd(FMul(v[j], w_ij), transform_sum(v, w_i, j + 1, FMul(w_ij, w_i)))

RECURSIVE transform_loop(_, _, _, _)
transform_loop(v, w, i, w_i) ==
    IF i > Len(v) THEN <<>>
    ELSE <<transform_sum(v, w_i, 1, ONE)>> \o transform_loop(v, w, i + 1, FMul(w_i, w))

\* Vec::resize(size, zero): pads with zeroes or truncates.
resize(v, size) ==
    [i \in 1..size |-> IF i <= Len(v) THEN v[i] ELSE ZERO]

\* EvaluationDomain::fft(&coeffs)
domain_fft(domain, coeffs) ==
    transform_loop(resize(coeffs, domain.size), domain.group_gen, 1, ONE)

\* EvaluationDomain::ifft(&evals)
domain_ifft(domain, evals) ==
    LET summed == transform_loop(resize(evals, domain.size),
                                 domain.group_gen_inv, 1, ONE)
    IN [i \in 1..domain.size |-> FMul(summed[i], domain.size_inv)]

fft_with_domain(self, domain) ==
    IF ~(domain.size > degree(self)) THEN Panic
    ELSE Some(domain_fft(domain, self))

fft(self, num_coeffs) ==
    IF ~(num_coeffs > degree(self)) THEN Panic
    ELSE LET domain == IF is_power_of_two(num_coeffs)
                       THEN evaluation_domain(num_coeffs)
                       ELSE quotient_evaluation_domain(num_coeffs)
         IN IF domain.kind = "Some" THEN fft_with_domain(self, domain.val)
            ELSE domain

\* Mutant of ifft_with_domain: the coefficients are not trimmed.
ifft_with_domain_untrimmed(domain, values) == domain_ifft(domain, values)

ifft_with_domain(domain, values) == from_coefs(domain_ifft(domain, values))

-----------------------------------------------------------------------------
(* State.                                                                  *)

VARIABLES
    public_parameter_group_1,   \* KZGCommitmentScheme: the powers of s in G1
    public_parameter_group_2,   \* KZGCommitmentScheme: G2 and s * G2
    coefs,                      \* FpPolynomial: the polynomial in hand
    commitment,                 \* the KZGResult of commit, kept up by add / mul
    opening,                    \* the last prove: [x, max_degree, ret]
    verdict,                    \* the last verify: [eval, proof, ret]
    call,                       \* the last call recorded: [name, self, other, q, r]
    bytes,                      \* the byte slice in hand
    restored,                   \* the KZGResult of from_unchecked_bytes
    blinded,                    \* the last apply_blind_factors:
                                \* [blinds, zeroing_degree, ret]
    tasks,                      \* the per-index tasks of a parallel
                                \* mul_scalar_assign: [at, local] for each
    op,                         \* the name of the last operation
    pc                          \* where the caller stands

vars == <<public_parameter_group_1, public_parameter_group_2, coefs, commitment,
          opening, verdict, call, bytes, restored, blinded, tasks, op, pc>>

\* Canonical form: length 1, or a non-zero last coefficient.
Canonical(c) == Len(c) = 1 \/ (Len(c) > 1 /\ c[Len(c)] # ZERO)

\* The polynomials from_coefs builds from the coefficient vectors in range.
Polys == {from_coefs(c) : c \in SeqsUpTo(MaxLen)}
Operands == {from_coefs(c) : c \in SeqsUpTo(MaxOther)}

NoResult == [kind |-> "None", val |-> 0]
NoOpening == [x |-> 0, max_degree |-> 0, ret |-> NoResult]
NoVerdict == [eval |-> 0, proof |-> 0, ret |-> NoResult]
NoCall == [name |-> "none", self |-> <<>>, other |-> <<>>, q |-> <<>>, r |-> <<>>]

NoBlinded == [blinds |-> <<>>, zeroing_degree |-> 0, ret |-> NoResult]

NoOthers ==
    /\ bytes = <<>>
    /\ restored = NoResult
    /\ blinded = NoBlinded
    /\ tasks = <<>>

OthersUnchanged == UNCHANGED <<bytes, restored, blinded, tasks>>

\* A call that aborts ends the run.
After(ret, next) == IF ret.kind = "panic" THEN "aborted" ELSE next

-----------------------------------------------------------------------------
(* The commitment scheme: a scheme is set up, a polynomial is committed,   *)
(* the commitment may be added to and scaled along with its polynomial,    *)
(* an opening is proved and verified; the scheme may be shrunk to its      *)
(* verifier-only form on the way.                                          *)

\* pcs = KZGCommitmentScheme::new(d, prng), prng sampling s; the call is
\* recorded with its inputs <<d, s>>.
Init ==
    /\ \E d \in 0..MaxDegree, s \in F :
          /\ public_parameter_group_1 = new(d, s).g1
          /\ public_parameter_group_2 = new(d, s).g2
          /\ call = [NoCall EXCEPT !.name = "new", !.other = <<d, s>>]
    /\ coefs \in Polys
    /\ commitment = NoResult
    /\ opening = NoOpening
    /\ verdict = NoVerdict
    /\ NoOthers
    /\ op = "new"
    /\ pc = "new"

\* pcs.commit(&poly)
Commit ==
    /\ pc = "new"
    /\ commitment' = commit(public_parameter_group_1, coefs)
    /\ op' = "commit"
    /\ OthersUnchanged
    /\ pc' = After(commitment', "committed")
    /\ call' = NoCall
    /\ UNCHANGED <<public_parameter_group_1, public_parameter_group_2, coefs,
                   opening, verdict>>

\* poly.add_assign(&other); commitment.add_assign(&pcs.commit(&other)?)
AddCommitted(other) ==
    /\ pc = "committed"
    /\ commitment.kind = "Ok"
    /\ commit(public_parameter_group_1, other).kind = "Ok"
    /\ coefs' = add_assign(coefs, other)
    /\ commitment' = Ok(KZGCommitment_add(commitment.val,
                             commit(public_parameter_group_1, other).val))
    /\ op' = "add"
    /\ OthersUnchanged
    /\ UNCHANGED <<public_parameter_group_1, public_parameter_group_2,
                   opening, verdict, call, pc>>

\* poly.mul_scalar_assign(&exp); commitment.mul_assign(&exp)
MulCommitted(exp) ==
    /\ pc = "committed"
    /\ commitment.kind = "Ok"
    /\ coefs' = mul_scalar_assign(coefs, exp)
    /\ commitment' = Ok(KZGCommitment_mul(commitment.val, exp))
    /\ op' = "mul"
    /\ OthersUnchanged
    /\ UNCHANGED <<public_parameter_group_1, public_parameter_group_2,
                   opening, verdict, call, pc>>

\* pcs.prove(&poly, &x, max_degree)
Prove(x, max_deg) ==
    /\ pc = "committed"
    /\ opening' = [x |-> x, max_degree |-> max_deg,
                   ret |-> prove(public_parameter_group_1, coefs, x, max_deg)]
    /\ op' = "prove"
    /\ OthersUnchanged
    /\ pc' = After(opening'.ret, "proved")
    /\ UNCHANGED <<public_parameter_group_1, public_parameter_group_2, coefs,
                   commitment, verdict, call>>

\* pcs.verify(&commitment, poly.degree(), &x, &eval, &proof), on the
\* commitment and the point of an opening proved with max_degree =
\* poly.degree(); the claimed value or the proof may be any.
Verify(ev, proof) ==
    /\ pc = "proved"
    /\ commitment.kind = "Ok"
    /\ opening.ret.kind = "Ok"
    /\ opening.max_degree = degree(coefs)
    /\ ev = eval(coefs, opening.x) \/ proof = opening.ret.val
    /\ verdict' = [eval |-> ev, proof |-> proof,
                   ret |-> verify(public_parameter_group_1, public_parameter_group_2,
                                  commitment.val, degree(coefs), opening.x, ev, proof)]
    /\ op' = "verify"
    /\ OthersUnchanged
    /\ pc' = After(verdict'.ret, "verified")
    /\ UNCHANGED <<public_parameter_group_1, public_parameter_group_2, coefs,
                   commitment, opening, call>>

\* pcs = pcs.shrink_to_verifier_only()?
Shrink ==
    /\ pc \in {"new", "committed", "proved"}
    /\ LET ret == shrink_to_verifier_only(public_parameter_group_1,
                                          public_parameter_group_2)
       IN /\ ret.kind = "Ok"
          /\ public_parameter_group_1' = ret.val.g1
          /\ public_parameter_group_2' = ret.val.g2
    /\ op' = "shrink"
    /\ OthersUnchanged
    /\ UNCHANGED <<coefs, commitment, opening, verdict, call, pc>>

Next ==
    \/ Commit
    \/ \E other \in Operands : AddCommitted(other)
    \/ \E exp \in F : MulCommitted(exp)
    \/ \E x \in F, max_deg \in 0..MaxDegree : Prove(x, max_deg)
    \/ \E ev \in F, proof \in G1 : Verify(ev, proof)
    \/ Shrink

Spec == Init /\ [][Next]_vars

-----------------------------------------------------------------------------
(* Claims about the commitment scheme, checked under Spec.                 *)

\* The commitment in hand is commit(poly) under the scheme in hand.
HonestCommitment ==
    commitment = commit(public_parameter_group_1, coefs)

\* The opening in hand is prove(poly, x, poly.degree()) under the scheme in
\* hand.
HonestOpening ==
    opening.ret = prove(public_parameter_group_1, coefs, opening.x, degree(coefs))

\* A verify has run on an honest commitment and opening of a canonical
\* polynomial that fits the scheme.
VerifiedHonest ==
    /\ pc = "verified"
    /\ Canonical(coefs)
    /\ degree(coefs) <= max_degree(public_parameter_group_1)
    /\ HonestCommitment
    /\ HonestOpening

\* The opening point is the trapdoor: s * G2 = x * G2.
AtTrapdoor(x) ==
    public_parameter_group_2[2] = GMul(public_parameter_group_2[1], x)

\* C1: completeness of openings.  For a canonical polynomial p that fits
\* the scheme and every point z, verify(commit(p), degree(p), z, p.eval(z),
\* prove(p, z, degree(p))) returns Ok.
C1_Completeness ==
    (/\ VerifiedHonest
     /\ verdict.eval = eval(coefs, opening.x)
     /\ verdict.proof = opening.ret.val)
    => verdict.ret = Ok(0)

\* C1 witness: an honest opening of a polynomial of degree MaxDegree, at
\* the trapdoor, with value zero, has been accepted.
C1_Witness ==
    /\ VerifiedHonest
    /\ verdict.eval = eval(coefs, opening.x)
    /\ verdict.proof = opening.ret.val
    /\ verdict.ret = Ok(0)
    /\ degree(coefs) = MaxDegree
    /\ verdict.eval = ZERO
    /\ AtTrapdoor(opening.x)

\* C2: a wrong evaluation is rejected.  With the honest commitment and
\* proof, verify returns PCSProveEvalError for every claimed value other
\* than p.eval(z).
C2_WrongEvalRejected ==
    (/\ VerifiedHonest
     /\ verdict.eval # eval(coefs, opening.x)
     /\ verdict.proof = opening.ret.val)
    => verdict.ret = Err("PCSProveEvalError")

\* C2 witness: a wrong claimed value of zero (the branch of verify that
\* skips the subtraction) has been rejected, at the trapdoor.
C2_Witness ==
    /\ VerifiedHonest
    /\ verdict.proof = opening.ret.val
    /\ verdict.eval = ZERO
    /\ eval(coefs, opening.x) # ZERO
    /\ AtTrapdoor(opening.x)
    /\ verdict.ret = Err("PCSProveEvalError")

\* C3 as claimed: with the honest commitment, point and value, verify
\* rejects every proof other than prove(p, z, degree(p)).
C3_Original ==
    (/\ VerifiedHonest
     /\ verdict.eval = eval(coefs, opening.x)
     /\ verdict.proof # opening.ret.val)
    => verdict.ret = Err("PCSProveEvalError")

\* C3 as amended: with the honest commitment, point and value, verify
\* rejects every proof other than prove(p, z, degree(p)), provided the
\* opening point is not the trapdoor of the scheme.
C3_MalformedProofRejected ==
    (/\ VerifiedHonest
     /\ verdict.eval = eval(coefs, opening.x)
     /\ verdict.proof # opening.ret.val
     /\ ~AtTrapdoor(opening.x))
    => verdict.ret = Err("PCSProveEvalError")

\* C3 witness: a proof other than the honest one has been rejected at a
\* point that is not the trapdoor.
C3_Witness ==
    /\ VerifiedHonest
    /\ verdict.eval = eval(coefs, opening.x)
    /\ verdict.proof # opening.ret.val
    /\ ~AtTrapdoor(opening.x)
    /\ degree(coefs) = MaxDegree
    /\ verdict.ret = Err("PCSProveEvalError")

\* C4: commitment homomorphism.  A commitment kept up by add and mul along
\* with its polynomial is the commitment of the polynomial; and for the
\* polynomial p just committed, every canonical q that fits the scheme and
\* every scalar exp, commit(p.add(q)) = commit(p).add(commit(q)) and
\* commit(p.mul_scalar(exp)) = commit(p).mul(exp).
C4_CommitmentHomomorphism ==
    /\ (/\ op \in {"add", "mul"}
        /\ Canonical(coefs)
        /\ degree(coefs) <= max_degree(public_parameter_group_1))
       => commitment = commit(public_parameter_group_1, coefs)
    /\ (op = "commit" /\ commitment.kind = "Ok" /\ Canonical(coefs))
       => /\ \A q \in Operands :
                (Canonical(q) /\ commit(public_parameter_group_1, q).kind = "Ok")
                => commit(public_parameter_group_1, add(coefs, q))
                   = Ok(KZGCommitment_add(commitment.val,
                                          commit(public_parameter_group_1, q).val))
          /\ \A exp \in F :
                commit(public_parameter_group_1, mul_scalar(coefs, exp))
                = Ok(KZGCommitment_mul(commitment.val, exp))

\* C4 witness: a polynomial of degree one has been committed to a non-zero
\* commitment under a scheme with a non-zero trapdoor, and adding an operand
\* of its length cancels its leading term.
C4_Witness ==
    /\ op = "commit"
    /\ commitment.kind = "Ok"
    /\ commitment.val # G1zero
    /\ public_parameter_group_2[2] # G1zero
    /\ \E q \in Operands :
          /\ Canonical(q)
          /\ Len(q) = Len(coefs)
          /\ Len(q) > 1
          /\ Len(add(coefs, q)) = 1
          /\ commit(public_parameter_group_1, add(coefs, q))
             = Ok(KZGCommitment_add(commitment.val,
                                    commit(public_parameter_group_1, q).val))

\* The multi-exponentiation done by hand (test_commit): the sum of
\* coefs[i] * public_parameter_group_1[i] for i in 0..n.
RECURSIVE expected_committed_value(_, _, _)
expected_committed_value(g1, c, n) ==
    IF n = 0 THEN G1zero
    ELSE GAdd(expected_committed_value(g1, c, n - 1), GMul(g1[n], c[n]))

\* C5 as claimed: commit(p) returns DegreeError exactly when degree(p) + 1 >
\* len(tau1), and otherwise returns the sum of coefs[i] * tau1[i] for i in
\* 0..=degree(p).
C5_CommitContract ==
    op = "commit"
    => LET over == degree(coefs) + 1 > Len(public_parameter_group_1)
       IN /\ commitment.kind = "DegreeError" <=> over
          /\ ~over => /\ commitment.kind = "Ok"
                      /\ commitment.val =
                           expected_committed_value(public_parameter_group_1,
                                                    coefs, degree(coefs) + 1)

\* C6 as claimed: for a canonical polynomial, prove returns a proof or an
\* error value, never aborts, and returns DegreeError when the polynomial
\* is too large for the scheme.
C6_ProveReturnsResult ==
    (op = "prove" /\ Canonical(coefs))
    => /\ opening.ret.kind \in {"Ok", "DegreeError", "PCSProveEvalError"}
       /\ degree(coefs) > max_degree(public_parameter_group_1)
          => opening.ret.kind = "DegreeError"

\* C7: prove(p, z, d_max) returns DegreeError whenever degree(p) > d_max,
\* whatever the point and the size of the scheme.
C7_ProveDegreeError ==
    (op = "prove" /\ degree(coefs) > opening.max_degree)
    => opening.ret = Err("DegreeError")

\* C7 witness: prove has returned DegreeError for a polynomial of degree
\* MaxDegree and max_degree one less, under a scheme of full size.
C7_Witness ==
    /\ op = "prove"
    /\ degree(coefs) = MaxDegree
    /\ opening.max_degree = MaxDegree - 1
    /\ max_degree(public_parameter_group_1) = MaxDegree
    /\ opening.ret = Err("DegreeError")

\* C15: the verifier-only scheme suffices.  Every step of
\* shrink_to_verifier_only leaves a scheme with tau1 = [tau1[0]] and tau2
\* unchanged, under which verify returns, for the commitment and the point
\* in hand and every claimed value and proof, the verdict it returns under
\* the scheme before the step; and a verdict returned is the verdict under
\* the shrunk scheme.
C15_VerifierOnly ==
    [][op' = "shrink"
       => /\ public_parameter_group_1' = <<public_parameter_group_1[1]>>
          /\ public_parameter_group_2' = public_parameter_group_2
          /\ \A y \in F, pi \in G1 :
                verify(public_parameter_group_1', public_parameter_group_2',
                       commitment.val, degree(coefs), opening.x, y, pi)
                = verify(public_parameter_group_1, public_parameter_group_2,
                         commitment.val, degree(coefs), opening.x, y, pi)]_vars

\* C15 witness: a scheme of full size, under which a polynomial of full
\* degree was committed and opened, has been shrunk, and the honest opening
\* has been accepted under the shrunk scheme.
C15_Witness ==
    /\ pc = "verified"
    /\ Len(public_parameter_group_1) = 1
    /\ degree(coefs) = MaxDegree
    /\ opening.ret.kind = "Ok"
    /\ opening.ret.val # G1zero
    /\ verdict.eval = eval(coefs, opening.x)
    /\ verdict.proof = opening.ret.val
    /\ verdict.ret = Ok(0)

-----------------------------------------------------------------------------
(* The polynomial algebra on its own: a polynomial is built by from_coefs  *)
(* and then worked on in place; div_rem is called on it and one of its two *)
(* outputs is taken as the polynomial in hand.                             *)

NoScheme ==
    /\ public_parameter_group_1 = <<>>
    /\ public_parameter_group_2 = <<>>
    /\ commitment = NoResult
    /\ opening = NoOpening
    /\ verdict = NoVerdict
    /\ NoOthers

SchemeUnchanged ==
    UNCHANGED <<public_parameter_group_1, public_parameter_group_2, commitment,
                opening, verdict, bytes, restored, blinded, tasks>>

\* FpPolynomial::from_coefs(c)
PolyInit ==
    /\ NoScheme
    /\ \E c \in SeqsUpTo(MaxLen) :
          /\ coefs = from_coefs(c)
          /\ call = [NoCall EXCEPT !.name = "from_coefs", !.other = c]
    /\ op = "from_coefs"
    /\ pc = "poly"

\* An in-place call that returns: the polynomial in hand becomes c.
Assigned(name, c) ==
    /\ coefs' = c
    /\ call' = NoCall
    /\ op' = name
    /\ pc' = "poly"
    /\ SchemeUnchanged

\* A call that aborts.
Aborted(name) ==
    /\ call' = NoCall
    /\ op' = name
    /\ pc' = "aborted"
    /\ UNCHANGED coefs
    /\ SchemeUnchanged

AddAssign(other) ==
    /\ pc = "poly"
    /\ Assigned("add_assign", add_assign(coefs, other))

SubAssign(other) ==
    /\ pc = "poly"
    /\ Assigned("sub_assign", sub_assign(coefs, other))

NegAssign ==
    /\ pc = "poly"
    /\ Assigned("neg_assign", neg_assign(coefs))

AddCoefAssign(coef, order) ==
    /\ pc = "poly"
    /\ IF add_coef_assign_panics(coefs, order)
       THEN Aborted("add_coef_assign")
       ELSE Assigned("add_coef_assign", add_coef_assign(coefs, coef, order))

MulScalarAssign(scalar) ==
    /\ pc = "poly"
    /\ Assigned("mul_scalar_assign", mul_scalar_assign(coefs, scalar))

MulVarAssign(scalar) ==
    /\ pc = "poly"
    /\ Assigned("mul_var_assign", mul_var_assign(coefs, scalar))

\* poly = FpPolynomial::from_zeroes(&zeroes)
FromZeroes(zeroes) ==
    /\ pc = "poly"
    /\ coefs' = from_zeroes(zeroes)
    /\ call' = [NoCall EXCEPT !.name = "from_zeroes", !.other = zeroes]
    /\ op' = "from_zeroes"
    /\ pc' = "poly"
    /\ SchemeUnchanged

\* let (q, r) = poly.div_rem(&divisor)
DivRem(divisor) ==
    /\ pc = "poly"
    /\ IF div_rem_panics(coefs, divisor)
       THEN Aborted("div_rem")
       ELSE /\ call' = [name |-> "div_rem", self |-> coefs, other |-> divisor,
                        q |-> div_rem(coefs, divisor)[1],
                        r |-> div_rem(coefs, divisor)[2]]
            /\ op' = "div_rem"
            /\ pc' = "divided"
            /\ UNCHANGED coefs
            /\ SchemeUnchanged

\* poly = q
TakeQuotient ==
    /\ pc = "divided"
    /\ coefs' = call.q
    /\ call' = NoCall
    /\ op' = "div_rem_q"
    /\ pc' = "poly"
    /\ SchemeUnchanged

\* poly = r
TakeRemainder ==
    /\ pc = "divided"
    /\ coefs' = call.r
    /\ call' = NoCall
    /\ op' = "div_rem_r"
    /\ pc' = "poly"
    /\ SchemeUnchanged

\* let values = poly.fft(num_coeffs)
Fft(num_coeffs) ==
    /\ pc = "poly"
    /\ LET ret == fft(coefs, num_coeffs)
       IN IF ret.kind = "panic" THEN Aborted("fft")
          ELSE IF ret.kind = "None"
          THEN /\ call' = NoCall
               /\ op' = "fft_none"
               /\ pc' = "poly"
               /\ UNCHANGED coefs
               /\ SchemeUnchanged
          ELSE /\ call' = [NoCall EXCEPT !.name = "fft", !.self = coefs,
                                         !.other = ret.val]
               /\ op' = "fft"
               /\ pc' = "transformed"
               /\ UNCHANGED coefs
               /\ SchemeUnchanged

\* poly = FpPolynomial::ifft_with_domain(&domain, &values), the domain being
\* the one fft built for the length of values.
Ifft ==
    /\ pc = "transformed"
    /\ coefs' = ifft_with_domain(evaluation_domain(Len(call.other)).val, call.other)
    /\ call' = [call EXCEPT !.name = "ifft"]
    /\ op' = "ifft"
    /\ pc' = "poly"
    /\ SchemeUnchanged

\* The sizes handed to fft.
FftSizes == 0..(MaxLen + 1)

PolyNext ==
    \/ \E other \in Operands : AddAssign(other)
    \/ \E other \in Operands : SubAssign(other)
    \/ NegAssign
    \/ \E coef \in F, order \in 0..(MaxLen - 1) : AddCoefAssign(coef, order)
    \/ \E scalar \in F : MulScalarAssign(scalar)
    \/ \E scalar \in F : MulVarAssign(scalar)
    \/ \E zeroes \in SeqsUpTo(MaxLen - 1) : FromZeroes(zeroes)
    \/ \E divisor \in Operands : DivRem(divisor)
    \/ TakeQuotient
    \/ TakeRemainder
    \/ \E num_coeffs \in FftSizes : Fft(num_coeffs)
    \/ Ifft

SpecPoly == PolyInit /\ [][PolyNext]_vars

-----------------------------------------------------------------------------
(* Claims about the polynomial algebra, checked under SpecPoly.            *)

RECURSIVE FPow(_, _)
FPow(z, n) == IF n = 0 THEN ONE ELSE FMul(z, FPow(z, n - 1))

\* The sum of c[i] * z^i over the first n coefficients of c.
RECURSIVE SumOfPowers(_, _, _)
SumOfPowers(c, z, n) ==
    IF n = 0 THEN ZERO
    ELSE FAdd(SumOfPowers(c, z, n - 1), FMul(c[n], FPow(z, n - 1)))

\* The coefficient of X^k in the product of a and b.
RECURSIVE ProductCoef(_, _, _, _)
ProductCoef(a, b, k, i) ==
    IF i > Len(a) THEN ZERO
    ELSE FAdd(IF k - i + 2 >= 1 /\ k - i + 2 <= Len(b)
              THEN FMul(a[i], b[k - i + 2]) ELSE ZERO,
              ProductCoef(a, b, k, i + 1))

\* The product of two non-empty polynomials, coefficient by coefficient.
Product(a, b) == [k \in 1..(Len(a) + Len(b) - 1) |-> ProductCoef(a, b, k - 1, 1)]

\* C8 as claimed: for every coefficient list c, the empty list included,
\* from_coefs(c).coefs has length 1 or a non-zero last coefficient, and
\* from_coefs(c).eval(z) is the sum of c[i] * z^i for every z.
C8_FromCoefsCanonical ==
    op = "from_coefs"
    => /\ Canonical(coefs)
       /\ \A z \in F : eval(coefs, z) = SumOfPowers(call.other, z, Len(call.other))

\* The in-place operations and outputs C9 is about.
InPlace ==
    {"add_assign", "sub_assign", "neg_assign", "add_coef_assign",
     "mul_scalar_assign", "mul_var_assign", "from_zeroes", "div_rem_q", "div_rem_r"}

\* C9: canonical form is kept.  Every step by add_assign, sub_assign,
\* neg_assign, add_coef_assign, mul_scalar_assign, mul_var_assign,
\* from_zeroes or the taking of an output of div_rem that starts from a
\* canonical polynomial ends in a canonical polynomial.
C9_CanonicalKept ==
    [][(op' \in InPlace /\ Canonical(coefs)) => Canonical(coefs')]_vars

\* C9 witness: scaling has left the zero polynomial as one zero coefficient.
C9_Witness ==
    /\ op = "mul_scalar_assign"
    /\ coefs = <<ZERO>>

\* div_rem has returned for a canonical dividend and a canonical divisor
\* that is not the zero polynomial.
Divided ==
    /\ pc = "divided"
    /\ Canonical(call.self)
    /\ Canonical(call.other)
    /\ ~is_zero(call.other)

\* q * d + r = p
DivisionIdentity ==
    add(Product(call.q, call.other), call.r) = call.self

\* C10 as claimed: for canonical p and d, d not the zero polynomial, with
\* (q, r) = p.div_rem(d), degree(r) < degree(d) and q * d + r = p.
C10_Original ==
    Divided => /\ degree(call.r) < degree(call.other)
               /\ DivisionIdentity

\* C10 as amended: degree(r) < degree(d) when d is not a constant, r is the
\* zero polynomial (whose degree() is 0, as is that of d) when d is a
\* non-zero constant, and q * d + r = p in both cases.
C10_DivRem ==
    Divided => /\ \/ degree(call.r) < degree(call.other)
                  \/ degree(call.other) = 0 /\ is_zero(call.r)
               /\ DivisionIdentity

\* C10 witness: a polynomial of full length has been divided by a divisor
\* of full length whose leading coefficient is not one, leaving a non-zero
\* remainder.
C10_Witness ==
    /\ Divided
    /\ Len(call.self) = MaxLen
    /\ Len(call.other) = MaxOther
    /\ call.other[MaxOther] # ONE
    /\ ~is_zero(call.r)
    /\ degree(call.r) < degree(call.other)
    /\ DivisionIdentity

\* C11: the root polynomial.  For every list of n roots, repeated and zero
\* roots included, from_zeroes and from_zeroes_ref return the same canonical
\* polynomial; it evaluates to zero at every root, has degree n and leading
\* coefficient one; for the empty list it is the constant one.
C11_FromZeroes ==
    (op = "from_zeroes" /\ call.name = "from_zeroes")
    => LET zeroes == call.other
       IN /\ coefs = from_zeroes(zeroes)
          /\ coefs = from_zeroes_ref(zeroes)
          /\ Canonical(coefs)
          /\ \A j \in 1..Len(zeroes) : eval(coefs, zeroes[j]) = ZERO
          /\ degree(coefs) = Len(zeroes)
          /\ coefs[Len(coefs)] = ONE
          /\ zeroes = <<>> => coefs = one

\* C11 witness: the polynomial of a full list of roots with a repeated
\* non-zero root has been built, and is not zero away from its roots.
C11_Witness ==
    /\ op = "from_zeroes"
    /\ Len(call.other) = MaxLen - 1
    /\ \E i, j \in 1..Len(call.other) :
          i < j /\ call.other[i] = call.other[j] /\ call.other[i] # ZERO
    /\ degree(coefs) = MaxLen - 1
    /\ \A j \in 1..Len(call.other) : eval(coefs, call.other[j]) = ZERO
    /\ \E z \in F : eval(coefs, z) # ZERO

\* The size is a power of two whose domain the field supports.
Admissible(n) == is_power_of_two(n) /\ log2(n) <= TWO_ADICITY

-----------------------------------------------------------------------------
(* Serialization on its own: a scheme whose two vectors have any lengths   *)
(* is written to bytes; the bytes, as they are or with one byte            *)
(* overwritten and the end cut off, are read back.                         *)

\* The byte values written over a byte of the blob.
ByteSamples == {1, 7, 64, 192}

\* A scheme: the vectors of new(d, s), each cut to any length.
BytesInit ==
    /\ \E d \in 0..MaxDegree, s \in F, k1 \in 0..(MaxDegree + 1), k2 \in 0..2 :
          /\ k1 <= d + 1
          /\ public_parameter_group_1 = SubSeq(new(d, s).g1, 1, k1)
          /\ public_parameter_group_2 = SubSeq(new(d, s).g2, 1, k2)
    /\ coefs = zero
    /\ commitment = NoResult
    /\ opening = NoOpening
    /\ verdict = NoVerdict
    /\ call = NoCall
    /\ NoOthers
    /\ op = "new"
    /\ pc = "srs"

BytesFrame ==
    UNCHANGED <<public_parameter_group_1, public_parameter_group_2, coefs,
                commitment, opening, verdict, call, blinded, tasks>>

\* bytes = pcs.to_unchecked_bytes()?
ToBytes ==
    /\ pc = "srs"
    /\ bytes' = to_unchecked_bytes(public_parameter_group_1,
                                   public_parameter_group_2).val
    /\ op' = "to_unchecked_bytes"
    /\ pc' = "bytes"
    /\ UNCHANGED restored
    /\ BytesFrame

\* bytes[i] = b
Overwrite(i, b) ==
    /\ pc = "bytes"
    /\ i \in 1..Len(bytes)
    /\ bytes[i] # b
    /\ bytes' = [bytes EXCEPT ![i] = b]
    /\ op' = "overwrite"
    /\ pc' = "overwritten"
    /\ UNCHANGED restored
    /\ BytesFrame

\* bytes = &bytes[..n]
Truncate(n) ==
    /\ pc \in {"bytes", "overwritten"}
    /\ n < Len(bytes)
    /\ bytes' = SubSeq(bytes, 1, n)
    /\ op' = "truncate"
    /\ pc' = "truncated"
    /\ UNCHANGED restored
    /\ BytesFrame

\* KZGCommitmentScheme::from_unchecked_bytes(&bytes)
FromBytes ==
    /\ pc \in {"bytes", "overwritten", "truncated"}
    /\ restored' = from_unchecked_bytes(bytes)
    /\ op' = "from_unchecked_bytes"
    /\ pc' = After(restored', "restored")
    /\ UNCHANGED bytes
    /\ BytesFrame

\* The longest blob of the model.
MaxBytes == 8 + n_1 * (MaxDegree + 1) + n_2 * 2

BytesNext ==
    \/ ToBytes
    \/ \E i \in 1..MaxBytes, b \in ByteSamples : Overwrite(i, b)
    \/ \E n \in 0..MaxBytes : Truncate(n)
    \/ FromBytes

SpecBytes == BytesInit /\ [][BytesNext]_vars

-----------------------------------------------------------------------------
(* Claims about serialization, checked under SpecBytes.                    *)

\* The scheme in hand, as from_unchecked_bytes returns a scheme.
SchemeInHand ==
    [g1 |-> public_parameter_group_1, g2 |-> public_parameter_group_2]

\* The bytes in hand are the blob of the scheme in hand.
Untouched ==
    bytes = to_unchecked_bytes(public_parameter_group_1,
                               public_parameter_group_2).val

\* C13: the round trip of a scheme through bytes.  The blob of a scheme is
\* the little-endian u32 length of tau1, that of tau2, the points of tau1
\* in order and the points of tau2 in order; from_unchecked_bytes on the
\* blob succeeds and returns the scheme.
C13_BytesRoundTrip ==
    /\ (pc \in {"bytes", "restored"} /\ Untouched)
       => LET len_1 == Len(public_parameter_group_1)
              len_2 == Len(public_parameter_group_2)
          IN /\ Len(bytes) = 8 + n_1 * len_1 + n_2 * len_2
             /\ SubSeq(bytes, 1, 8) = <<len_1, 0, 0, 0, len_2, 0, 0, 0>>
             /\ \A i \in 1..len_1 :
                   SubSeq(bytes, 8 + n_1 * (i - 1) + 1, 8 + n_1 * i)
                   = G1_serialize(public_parameter_group_1[i])
             /\ \A i \in 1..len_2 :
                   SubSeq(bytes, 8 + n_1 * len_1 + n_2 * (i - 1) + 1,
                          8 + n_1 * len_1 + n_2 * i)
                   = G2_serialize(public_parameter_group_2[i])
    /\ (op = "from_unchecked_bytes" /\ Untouched)
       => restored = Ok(SchemeInHand)

\* C13 witness: a scheme of full size with the identity among its points
\* has been written and read back.
C13_Witness ==
    /\ op = "from_unchecked_bytes"
    /\ Untouched
    /\ Len(public_parameter_group_1) = MaxDegree + 1
    /\ Len(public_parameter_group_2) = 2
    /\ public_parameter_group_1[2] = G1zero
    /\ restored = Ok(SchemeInHand)

\* C14 as claimed: from_unchecked_bytes returns a scheme or
\* DeserializationError for every byte slice, and DeserializationError for
\* a slice that is shorter than 8 bytes, or shorter than the 8 + len_1 * n_1
\* + len_2 * n_2 bytes its header announces, or holds a point that does not
\* decode.
C14_MalformedBytes ==
    op = "from_unchecked_bytes"
    => /\ restored.kind \in {"Ok", "DeserializationError"}
       /\ Len(bytes) < 8 => restored = Err("DeserializationError")
       /\ (/\ Len(bytes) >= 8
           /\ Len(bytes) < 8 + n_1 * from_le_bytes(SubSeq(bytes, 1, 4))
                              + n_2 * from_le_bytes(SubSeq(bytes, 5, 8)))
          => restored = Err("DeserializationError")

\* The shape verify and shrink_to_verifier_only read: tau1[0], tau2[0] and
\* tau2[1] exist, tau2 has nothing more, and max_degree() is not negative.
Shaped(g1, g2) ==
    /\ Len(g1) >= 1
    /\ Len(g2) = 2
    /\ max_degree(g1) >= 0

\* C22 as claimed: the shape of a scheme.  Every scheme that
\* from_unchecked_bytes returns for a byte slice has len(tau1) >= 1 and
\* len(tau2) = 2, so that max_degree() = len(tau1) - 1 is not negative and
\* verify and shrink_to_verifier_only can read tau1[0], tau2[0] and tau2[1];
\* and shrink_to_verifier_only of it returns a scheme of that shape.
C22_SrsShape ==
    (op = "from_unchecked_bytes" /\ restored.kind = "Ok")
    => LET g1 == restored.val.g1
           g2 == restored.val.g2
           shrunk == shrink_to_verifier_only(g1, g2)
       IN /\ Shaped(g1, g2)
          /\ shrunk.kind = "Ok"
          /\ Shaped(shrunk.val.g1, shrunk.val.g2)

-----------------------------------------------------------------------------
(* Claims about the set-up and the calls of a scheme, checked under Spec.  *)

\* C16: the structure of a scheme from new(d, prng) with sampled scalar s,
\* s = 0 and s = 1 included.  tau1 has length d + 1 with tau1[i] = s^i * G1,
\* so tau1[0] is the generator; tau2 = [G2, s * G2]; e(tau1[i + 1], G2) =
\* e(tau1[i], tau2[1]) for every i in 0..d-1; and max_degree() = d.
C16_SetupStructure ==
    (op = "new" /\ call.name = "new")
    => LET d == call.other[1]
           s == call.other[2]
       IN /\ Len(public_parameter_group_1) = d + 1
          /\ \A i \in 0..d :
                public_parameter_group_1[i + 1] = GMul(G1generator, FPow(s, i))
          /\ public_parameter_group_1[1] = G1generator
          /\ public_parameter_group_2 = <<G2generator, GMul(G2generator, s)>>
          /\ \A i \in 0..(d - 1) :
                pairing(public_parameter_group_1[i + 2], G2generator)
                = pairing(public_parameter_group_1[i + 1], public_parameter_group_2[2])
          /\ d >= 1 => pairing(public_parameter_group_1[2], public_parameter_group_2[1])
                        = pairing(G1generator, public_parameter_group_2[2])
          /\ max_degree(public_parameter_group_1) = d

\* C16 witness: a scheme of max degree MaxDegree has been set up with a
\* scalar that is neither 0 nor 1, its powers not all alike.
C16_Witness ==
    /\ op = "new"
    /\ call.name = "new"
    /\ call.other[1] = MaxDegree
    /\ call.other[2] \notin {ZERO, ONE}
    /\ Len(public_parameter_group_1) = MaxDegree + 1
    /\ public_parameter_group_1[MaxDegree + 1] # public_parameter_group_1[MaxDegree]
    /\ public_parameter_group_1[MaxDegree + 1] = GMul(G1generator, FPow(call.other[2], MaxDegree))

\* The numerator and the divisor of prove for the polynomial and the point
\* in hand: p - p.eval(z) and X - z.
Nominator == sub(coefs, from_coefs(<<eval(coefs, opening.x)>>))
VanishingPoly == from_coefs(<<FNeg(opening.x), ONE>>)

\* prove has been called on a canonical polynomial of degree at most the
\* max_degree handed in.
ProvedInRange ==
    /\ op = "prove"
    /\ Canonical(coefs)
    /\ degree(coefs) <= opening.max_degree

\* C20: the division in prove is exact.  For a canonical polynomial p with
\* degree(p) <= d_max and every point z, div_rem(p - p.eval(z), X - z) has
\* the zero polynomial as remainder, prove does not return
\* PCSProveEvalError, a proof returned is commit(q) with q * (X - z) =
\* p - p.eval(z), and for a constant p the proof is the identity of G1.
C20_ExactDivision ==
    ProvedInRange
    => LET qr == div_rem(Nominator, VanishingPoly)
       IN /\ qr[2] = zero
          /\ opening.ret.kind # "PCSProveEvalError"
          /\ from_coefs(Product(qr[1], VanishingPoly)) = Nominator
          /\ opening.ret.kind = "Ok"
             => opening.ret = commit(public_parameter_group_1, qr[1])
          /\ degree(coefs) = 0 => opening.ret = Ok(G1zero)

\* C20 witness: a polynomial of degree MaxDegree has been opened at a
\* point other than zero where it does not vanish, to a proof that is the
\* commitment of a quotient of degree MaxDegree - 1.
C20_Witness ==
    /\ ProvedInRange
    /\ degree(coefs) = MaxDegree
    /\ opening.x # ZERO
    /\ eval(coefs, opening.x) # ZERO
    /\ opening.ret.kind = "Ok"
    /\ opening.ret.val # G1zero
    /\ degree(div_rem(Nominator, VanishingPoly)[1]) = MaxDegree - 1
    /\ opening.ret = commit(public_parameter_group_1,
                            div_rem(Nominator, VanishingPoly)[1])

-----------------------------------------------------------------------------
(* Blinding on its own: a scheme is set up, a polynomial is committed and  *)
(* the commitment is blinded.                                              *)

BlindInit ==
    /\ \E d \in 0..MaxDegree, s \in F :
          /\ public_parameter_group_1 = new(d, s).g1
          /\ public_parameter_group_2 = new(d, s).g2
          /\ call = [NoCall EXCEPT !.name = "new", !.other = <<d, s>>]
    /\ coefs \in Operands
    /\ commitment = NoResult
    /\ opening = NoOpening
    /\ verdict = NoVerdict
    /\ NoOthers
    /\ op = "new"
    /\ pc = "new"

\* pcs.apply_blind_factors(&commitment, &blinds, zeroing_degree)
Blind(blinds, zeroing_degree) ==
    /\ pc = "committed"
    /\ commitment.kind = "Ok"
    /\ blinded' = [blinds |-> blinds, zeroing_degree |-> zeroing_degree,
                   ret |-> apply_blind_factors(public_parameter_group_1,
                                               commitment.val, blinds,
                                               zeroing_degree)]
    /\ op' = "apply_blind_factors"
    /\ pc' = After(blinded'.ret, "blinded")
    /\ UNCHANGED <<public_parameter_group_1, public_parameter_group_2, coefs,
                   commitment, opening, verdict, call, bytes, restored, tasks>>

BlindNext ==
    \/ Commit
    \/ \E blinds \in SeqsUpTo(MaxOther), zeroing_degree \in 0..(MaxDegree + 1) :
          Blind(blinds, zeroing_degree)

SpecBlind == BlindInit /\ [][BlindNext]_vars

-----------------------------------------------------------------------------
(* Claims about blinding, checked under SpecBlind.                         *)

\* The sum of blinds[i] * g1[offset + i] over the blinds.
RECURSIVE BlindSum(_, _, _, _)
BlindSum(g1, blinds, offset, m) ==
    IF m = 0 THEN G1zero
    ELSE GAdd(BlindSum(g1, blinds, offset, m - 1),
              GMul(g1[offset + m], blinds[m]))

\* p + B - X^n * B, with B the polynomial of the blinds.
BlindedPolynomial(p, blinds, n) ==
    sub(add(p, from_coefs(blinds)), from_coefs([i \in 1..n |-> ZERO] \o blinds))

\* apply_blind_factors has been called with indices inside tau1.
BlindedInRange ==
    /\ op = "apply_blind_factors"
    /\ blinded.zeroing_degree + Len(blinded.blinds) - 1
         < Len(public_parameter_group_1)

\* C17: the arithmetic of blinding.  For a commitment C, blinds b_0..b_{m-1}
\* and zeroing degree n with n + m - 1 < len(tau1), apply_blind_factors
\* returns C + sum b_i * tau1[i] - sum b_i * tau1[n + i]; for C = commit(p)
\* that is commit(p + B - X^n * B); it is C for an empty list of blinds; and
\* the commitment handed in is left as it was.
C17_BlindingArithmetic ==
    BlindedInRange
    => LET g1 == public_parameter_group_1
           b == blinded.blinds
           n == blinded.zeroing_degree
       IN /\ blinded.ret
             = Ok(GSub(GAdd(commitment.val, BlindSum(g1, b, 0, Len(b))),
                       BlindSum(g1, b, n, Len(b))))
          /\ commitment = commit(g1, coefs)
          /\ blinded.ret = commit(g1, BlindedPolynomial(coefs, b, n))
          /\ b = <<>> => blinded.ret = commitment

\* C17 witness: a commitment has been blinded with two non-zero blinds and
\* zeroing degree one under a scheme whose scalar is neither 0 nor 1, to a
\* commitment other than the one handed in.
C17_Witness ==
    /\ BlindedInRange
    /\ Len(blinded.blinds) = 2
    /\ blinded.blinds[1] # ZERO
    /\ blinded.blinds[2] # ZERO
    /\ blinded.zeroing_degree = 1
    /\ public_parameter_group_2[2] \notin {ZERO, ONE}
    /\ blinded.ret.kind = "Ok"
    /\ blinded.ret # commitment
    /\ blinded.ret = commit(public_parameter_group_1,
                            BlindedPolynomial(coefs, blinded.blinds, 1))

-----------------------------------------------------------------------------
(* Calls on one scheme in any order: the scheme is set up once and every   *)
(* method of it is then called any number of times, in any interleaving.   *)
(* The last commit, prove and verify stay in hand; of the other calls the  *)
(* last one does.                                                          *)

\* The scalars and the polynomials handed to the calls.
Few == {ZERO, ONE}
FewPolys == {from_coefs(c) : c \in UNION {[1..k -> Few] : k \in 0..MaxOther}}
FewBlinds == {<<>>} \cup {<<b>> : b \in Few}

CallsInit ==
    /\ \E d \in 0..MaxDegree, s \in F :
          /\ public_parameter_group_1 = new(d, s).g1
          /\ public_parameter_group_2 = new(d, s).g2
    /\ coefs \in FewPolys
    /\ commitment = NoResult
    /\ opening = NoOpening
    /\ verdict = NoVerdict
    /\ call = NoCall
    /\ NoOthers
    /\ op = "new"
    /\ pc = "calls"

\* No method takes the scheme or the polynomial by mutable reference.
SelfUnchanged ==
    UNCHANGED <<public_parameter_group_1, public_parameter_group_2, coefs>>

\* The last of the other calls: its record, or its bytes, scheme or
\* blinded commitment.
Other(name, c, b, r, bl) ==
    /\ call' = c
    /\ bytes' = b
    /\ restored' = r
    /\ blinded' = bl
    /\ op' = name
    /\ UNCHANGED <<commitment, opening, verdict, tasks>>
    /\ SelfUnchanged

\* pcs.commit(&poly)
CallCommit ==
    /\ pc = "calls"
    /\ commitment' = commit(public_parameter_group_1, coefs)
    /\ op' = "commit"
    /\ pc' = After(commitment', "calls")
    /\ UNCHANGED <<opening, verdict, call>>
    /\ OthersUnchanged
    /\ SelfUnchanged

\* pcs.prove(&poly, &x, poly.degree())
CallProve(x) ==
    /\ pc = "calls"
    /\ opening' = [x |-> x, max_degree |-> degree(coefs),
                   ret |-> prove(public_parameter_group_1, coefs, x, degree(coefs))]
    /\ op' = "prove"
    /\ pc' = After(opening'.ret, "calls")
    /\ UNCHANGED <<commitment, verdict, call>>
    /\ OthersUnchanged
    /\ SelfUnchanged

\* pcs.verify(&commitment, poly.degree(), &x, &ev, &proof) on the
\* commitment, the point and the proof in hand.
CallVerify(ev) ==
    /\ pc = "calls"
    /\ commitment.kind = "Ok"
    /\ opening.ret.kind = "Ok"
    /\ verdict' = [eval |-> ev, proof |-> opening.ret.val,
                   ret |-> verify(public_parameter_group_1, public_parameter_group_2,
                                  commitment.val, degree(coefs), opening.x, ev,
                                  opening.ret.val)]
    /\ op' = "verify"
    /\ pc' = After(verdict'.ret, "calls")
    /\ UNCHANGED <<commitment, opening, call>>
    /\ OthersUnchanged
    /\ SelfUnchanged

\* pcs.eval(&poly, &point)
CallEval(point) ==
    /\ pc = "calls"
    /\ Other("eval",
             [NoCall EXCEPT !.name = "eval", !.other = <<point>>,
                            !.r = <<eval(coefs, point)>>],
             <<>>, NoResult, NoBlinded)
    /\ UNCHANGED pc

\* pcs.max_degree()
CallMaxDegree ==
    /\ pc = "calls"
    /\ Len(public_parameter_group_1) >= 1
    /\ Other("max_degree",
             [NoCall EXCEPT !.name = "max_degree",
                            !.r = <<max_degree(public_parameter_group_1)>>],
             <<>>, NoResult, NoBlinded)
    /\ UNCHANGED pc

\* pcs.to_unchecked_bytes()
CallToBytes ==
    /\ pc = "calls"
    /\ Other("to_unchecked_bytes", NoCall,
             to_unchecked_bytes(public_parameter_group_1,
                                public_parameter_group_2).val,
             NoResult, NoBlinded)
    /\ UNCHANGED pc

\* Mutant of CallShrink: the scheme itself is cut down.
CallShrinkInPlace ==
    /\ pc = "calls"
    /\ restored' = shrink_to_verifier_only(public_parameter_group_1,
                                           public_parameter_group_2)
    /\ public_parameter_group_1' = restored'.val.g1
    /\ public_parameter_group_2' = restored'.val.g2
    /\ call' = NoCall
    /\ bytes' = <<>>
    /\ blinded' = NoBlinded
    /\ op' = "shrink_to_verifier_only"
    /\ UNCHANGED <<coefs, commitment, opening, verdict, tasks, pc>>

\* let verifier = pcs.shrink_to_verifier_only()
CallShrink ==
    /\ pc = "calls"
    /\ Other("shrink_to_verifier_only", NoCall, <<>>,
             shrink_to_verifier_only(public_parameter_group_1,
                                     public_parameter_group_2),
             NoBlinded)
    /\ UNCHANGED pc

\* pcs.apply_blind_factors(&commitment, &blinds, zeroing_degree)
CallBlind(blinds, zeroing_degree) ==
    /\ pc = "calls"
    /\ commitment.kind = "Ok"
    /\ LET ret == apply_blind_factors(public_parameter_group_1, commitment.val,
                                      blinds, zeroing_degree)
       IN /\ Other("apply_blind_factors", NoCall, <<>>, NoResult,
                   [blinds |-> blinds, zeroing_degree |-> zeroing_degree,
                    ret |-> ret])
          /\ pc' = After(ret, "calls")

CallsNext ==
    \/ CallCommit
    \/ \E x \in Few : CallProve(x)
    \/ \E ev \in Few : CallVerify(ev)
    \/ \E point \in Few : CallEval(point)
    \/ CallMaxDegree
    \/ CallToBytes
    \/ CallShrink
    \/ \E blinds \in FewBlinds, zeroing_degree \in 0..(MaxDegree + 1) :
          CallBlind(blinds, zeroing_degree)

SpecCalls == CallsInit /\ [][CallsNext]_vars

-----------------------------------------------------------------------------
(* Claims about the calls on one scheme, checked under SpecCalls.          *)

\* The names of the methods of a scheme.
Methods ==
    {"commit", "eval", "prove", "verify", "apply_blind_factors",
     "shrink_to_verifier_only", "max_degree", "to_unchecked_bytes"}

-----------------------------------------------------------------------------
(* mul_scalar_assign with the feature "parallel": par_iter_mut hands each  *)
(* coefficient to a task of its own; a task loads its coefficient and      *)
(* stores the product; the tasks run in any order and interleaving, and    *)
(* the coefficients are trimmed when for_each has returned.                *)

ParInit ==
    /\ NoScheme
    /\ coefs \in Polys
    /\ call = NoCall
    /\ op = "from_coefs"
    /\ pc = "poly"

ParFrame ==
    UNCHANGED <<public_parameter_group_1, public_parameter_group_2, commitment,
                opening, verdict, bytes, restored, blinded>>

\* poly.mul_scalar_assign(&scalar): par_iter_mut().for_each(..) starts a
\* task for every coefficient.
Fork(scalar) ==
    /\ pc = "poly"
    /\ tasks' = [i \in 1..Len(coefs) |-> [at |-> "todo", local |-> ZERO]]
    /\ call' = [NoCall EXCEPT !.name = "mul_scalar_assign", !.self = coefs,
                              !.other = <<scalar>>]
    /\ op' = "for_each"
    /\ pc' = "tasks"
    /\ UNCHANGED coefs
    /\ ParFrame

\* Task i reads its coefficient.
Load(i) ==
    /\ pc = "tasks"
    /\ i \in 1..Len(tasks)
    /\ tasks[i].at = "todo"
    /\ tasks' = [tasks EXCEPT ![i] = [at |-> "loaded", local |-> coefs[i]]]
    /\ UNCHANGED <<coefs, call, op, pc>>
    /\ ParFrame

\* Task i writes the product: coef.mul_assign(scalar).
Store(i) ==
    /\ pc = "tasks"
    /\ i \in 1..Len(tasks)
    /\ tasks[i].at = "loaded"
    /\ coefs' = [coefs EXCEPT ![i] = FMul(tasks[i].local, call.other[1])]
    /\ tasks' = [tasks EXCEPT ![i] = [at |-> "done", local |-> ZERO]]
    /\ UNCHANGED <<call, op, pc>>
    /\ ParFrame

\* Mutant of Join: the coefficients are trimmed while one task has not
\* written yet.
JoinEarly ==
    /\ pc = "tasks"
    /\ Cardinality({i \in 1..Len(tasks) : tasks[i].at # "done"}) <= 1
    /\ coefs' = trim_coefs(coefs)
    /\ tasks' = <<>>
    /\ op' = "mul_scalar_assign"
    /\ pc' = "done"
    /\ UNCHANGED call
    /\ ParFrame

\* for_each returns when every task is done; then self.trim_coefs().
Join ==
    /\ pc = "tasks"
    /\ \A i \in 1..Len(tasks) : tasks[i].at = "done"
    /\ coefs' = trim_coefs(coefs)
    /\ tasks' = <<>>
    /\ op' = "mul_scalar_assign"
    /\ pc' = "done"
    /\ UNCHANGED call
    /\ ParFrame

ParNext ==
    \/ \E scalar \in F : Fork(scalar)
    \/ \E i \in 1..MaxLen : Load(i)
    \/ \E i \in 1..MaxLen : Store(i)
    \/ Join

SpecPar == ParInit /\ [][ParNext]_vars

-----------------------------------------------------------------------------
(* Claims about the parallel mul_scalar_assign, checked under SpecPar.     *)

\* C19: the parallel and the sequential mul_scalar_assign agree.  Whatever
\* the order and interleaving of the per-index tasks, the coefficients
\* after the trimming are those of the sequential loop from left to right
\* followed by the trimming.
C19_ParallelAgrees ==
    pc = "done"
    => coefs = mul_scalar_assign_sequential(call.self, call.other[1])

\* C19 witness: the tasks of a polynomial of full length with three
\* different coefficients have multiplied it by a scalar other than 0 and
\* 1, to the coefficients of the sequential loop.
C19_Witness ==
    /\ pc = "done"
    /\ Len(call.self) = MaxLen
    /\ Cardinality({call.self[i] : i \in 1..MaxLen}) >= 3
    /\ call.other[1] \notin {ZERO, ONE}
    /\ coefs # call.self
    /\ coefs = mul_scalar_assign_sequential(call.self, call.other[1])

-----------------------------------------------------------------------------
(* Sums and differences: the pure forms add and sub next to the in-place   *)
(* forms, on the polynomial in hand and a second polynomial that is one of *)
(* the operands in range or the polynomial in hand itself.                 *)

\* The outcome of a pure call: its operands and its result are recorded,
\* nothing is assigned.
Returned(name, other, result) ==
    /\ call' = [NoCall EXCEPT !.name = name, !.self = coefs, !.other = other,
                              !.q = result]
    /\ op' = name
    /\ pc' = "returned"
    /\ SchemeUnchanged

\* let sum = poly.add(&other): new = self.clone(); new.add_assign(other)
Add(other) ==
    /\ pc = "poly"
    /\ UNCHANGED coefs
    /\ Returned("add", other, add(coefs, other))

\* let difference = poly.sub(&other)
Sub(other) ==
    /\ pc = "poly"
    /\ UNCHANGED coefs
    /\ Returned("sub", other, sub(coefs, other))

\* let difference = poly.sub(&poly)
SubSelf ==
    /\ pc = "poly"
    /\ UNCHANGED coefs
    /\ Returned("sub", coefs, sub(coefs, coefs))

\* poly = result: the polynomial returned becomes the polynomial in hand.
TakeResult ==
    /\ pc = "returned"
    /\ coefs' = call.q
    /\ call' = NoCall
    /\ op' = "take_result"
    /\ pc' = "poly"
    /\ SchemeUnchanged

SumNext ==
    \/ \E other \in Operands : Add(other)
    \/ \E other \in Operands : Sub(other)
    \/ SubSelf
    \/ TakeResult
    \/ \E other \in Operands : AddAssign(other)
    \/ \E other \in Operands : SubAssign(other)

SpecSum == PolyInit /\ [][SumNext]_vars

-----------------------------------------------------------------------------
(* Claims about sums and differences, checked under SpecSum.               *)

\* The coefficient of X^(i - 1), zero past the end of the vector.
CoefAt(c, i) == IF i <= Len(c) THEN c[i] ELSE ZERO

Longer(p, q) == IF Len(p) >= Len(q) THEN Len(p) ELSE Len(q)

Shorter(p, q) == IF Len(p) >= Len(q) THEN Len(q) ELSE Len(p)

\* The pure form add or sub has returned for two canonical polynomials.
SumReturned ==
    /\ op \in {"add", "sub"}
    /\ call.name = op
    /\ Canonical(call.self)
    /\ Canonical(call.other)

\* C21: addition and subtraction are coefficient-wise on polynomials of any
\* two lengths.  For canonical p and q and every z, p.add(q).eval(z) =
\* p.eval(z) + q.eval(z) and p.sub(q).eval(z) = p.eval(z) - q.eval(z); the
\* result is the canonical form of the coefficient-wise sum or difference,
\* so where the lengths differ the tail of the longer operand is kept,
\* negated when it is the subtrahend; p.add(q) = q.add(p); p.sub(p) is the
\* zero polynomial; and the pure forms leave both operands as they were.
C21_CoefficientWise ==
    SumReturned
    => LET p == call.self
           q == call.other
           result == call.q
           plus == op = "add"
       IN /\ \A z \in F :
                eval(result, z) = IF plus THEN FAdd(eval(p, z), eval(q, z))
                                          ELSE FSub(eval(p, z), eval(q, z))
          /\ result = from_coefs([i \in 1..Longer(p, q) |->
                          IF plus THEN FAdd(CoefAt(p, i), CoefAt(q, i))
                                  ELSE FSub(CoefAt(p, i), CoefAt(q, i))])
          /\ Len(p) # Len(q)
             => /\ Len(result) = Longer(p, q)
                /\ \A i \in (Shorter(p, q) + 1)..Longer(p, q) :
                      result[i] = IF Len(p) > Len(q) THEN p[i]
                                  ELSE IF plus THEN q[i] ELSE FNeg(q[i])
          /\ plus => result = add(q, p)
          /\ (~plus /\ q = p) => result = zero
          /\ Canonical(result)
          /\ coefs = p

\* C21 witness: sub has returned for a subtrahend longer than the
\* polynomial in hand, the tail of the difference being the negated tail
\* of the subtrahend and different from it.
C21_Witness ==
    /\ SumReturned
    /\ op = "sub"
    /\ Len(call.other) > Len(call.self)
    /\ Len(call.q) = Len(call.other)
    /\ call.q[Len(call.q)] = FNeg(call.other[Len(call.other)])
    /\ call.q[Len(call.q)] # call.other[Len(call.other)]
    /\ coefs = call.self

=============================================================================
